---- MODULE Spec2Model ----
(***************************************************************************)
(* Model of backend/ai_generator.py: AIGenerator.generate_response and its *)
(* sequential tool-calling loop AIGenerator._handle_tool_execution.        *)
(*                                                                         *)
(* One call of generate_response is a sequence of steps that are separated *)
(* by the blocking calls the code makes: client.messages.create (the model *)
(* invocation) and tool_manager.execute_tool (one tool execution).         *)
(* requests, tool_calls and events record what the collaborators saw, the  *)
(* way the mocks of the test-suite record call_args_list.                  *)
(***************************************************************************)
EXTENDS Integers, Sequences, FiniteSets, TLC

\* ------------------------------------------------------------------ bounds
\* largest number of content blocks in one model response
MaxBlocks == 2
\* no call is followed beyond this many rounds (MAX_ROUNDS is smaller)
RoundLimit == 3

\* most tool executions followed in one round of a query on the registry
MaxCalls == 1
\* most queries followed on one registry
MaxQueries == 2
\* most sessions created
MaxSessions == 2
\* most turns appended to the sessions altogether
MaxTurns == 4
\* most requests to the query endpoint
MaxRequests == 3

\* ------------------------------------------------------- program constants
\* ai_generator.py:118  MAX_ROUNDS = 2
MAX_ROUNDS == 2
\* ai_generator.py:43   "temperature": 0
TEMPERATURE == 0
\* ai_generator.py:44   "max_tokens": 800
MAX_TOKENS == 800
\* tests/test_rag_integration.py:21  config.MAX_HISTORY = 2
MAX_HISTORY == 2

\* ---------------------------------------------------------- Python values
\* Optional[T]: None is the empty tuple, a value x is the 1-tuple <<x>>
None == <<>>
Some(x) == <<x>>

\* ai_generator.py:8  the static system prompt
SYSTEM_PROMPT == "SYSTEM_PROMPT"
\* ai_generator.py:66  separator of the f-string that appends the history
HISTORY_HEADER == "\n\nPrevious conversation:\n"

\* ai_generator.py:81 / :160  {"type": "auto"}
ToolChoiceAuto == [type |-> "auto"]

\* ------------------------------------------------------------ input sets
Queries == {"q1"}
Histories == {None, Some("User: a\nAssistant: b")}
\* the schema list of the two tools the system prompt names
ToolSchemas == <<[name |-> "search_course_content"], [name |-> "get_course_outline"]>>
ToolsArgs == {None, Some(<<>>), Some(ToolSchemas)}
\* names registered in the tool manager
RegisteredTools == {"search_course_content", "get_course_outline"}
\* a tool manager: its registered names and whether the index its search
\* tool queries answers or fails
ToolManagers ==
    {None} \cup {Some([tools |-> RegisteredTools, index |-> ix]) : ix \in {"ok", "failing"}}

\* stop reasons of the model endpoint
StopReasons == {"end_turn", "max_tokens", "tool_use"}

\* what a tool_use block can ask for: (tool name, structured input)
ToolRequests ==
    { [name |-> "search_course_content", input |-> "query=testing"],
      [name |-> "no_such_tool",          input |-> "x=1"] }

\* a block of a response before the endpoint gives it its text / id
BlockKinds == {[kind |-> "text"]} \cup {[kind |-> "tool_use", req |-> r] : r \in ToolRequests}

SeqsUpTo(S, n) == UNION {[1..k -> S] : k \in 0..n}

Shapes == SeqsUpTo(BlockKinds, MaxBlocks)

\* The n-th response of the endpoint with the given shape.  Text and
\* invocation ids are unique per (response, position), as ids of the real
\* endpoint are.
MakeBlock(n, i, k) ==
    IF k.kind = "text"
    THEN [type |-> "text", text |-> <<"text", n, i>>]
    ELSE [type |-> "tool_use", name |-> k.req.name, input |-> k.req.input,
          id |-> <<"toolu", n, i>>]

MakeResponse(n, stop, shape) ==
    [stop_reason |-> stop,
     content |-> [i \in 1..Len(shape) |-> MakeBlock(n, i, shape[i])]]

\* Language model endpoint: it asks for tools (stop reason tool_use, or a
\* tool_use block) only when the request carried tool schemas.
CanAnswer(request, stop, shape) ==
    (stop = "tool_use" \/ \E i \in 1..Len(shape) : shape[i].kind = "tool_use")
        => "tools" \in DOMAIN request

\* --------------------------------------------------------------- helpers
\* Python dict spread {**f, **g}
Merge(f, g) == [k \in DOMAIN f \cup DOMAIN g |-> IF k \in DOMAIN g THEN g[k] ELSE f[k]]

\* Python truthiness of Optional[List] (ai_generator.py:79 "if tools:")
TruthyList(opt) == opt # None /\ Len(opt[1]) > 0
\* Python truthiness of Optional[str] (ai_generator.py:67)
TruthyStr(opt) == opt # None /\ opt[1] # ""

\* the history is dropped from the system text
SystemContent_NoHistory(conversation_history) == <<SYSTEM_PROMPT>>

\* ai_generator.py:65-69  system_content
SystemContent(conversation_history) ==
    IF TruthyStr(conversation_history)
    THEN <<SYSTEM_PROMPT, HISTORY_HEADER, conversation_history[1]>>
    ELSE <<SYSTEM_PROMPT>>

\* ai_generator.py:41-45  self.base_params
BaseParams(model) == [model |-> model, temperature |-> TEMPERATURE, max_tokens |-> MAX_TOKENS]

\* the tools are attached whenever a list is passed, the empty list too
\* ("if tools is not None")
InitialParams_NotNone(bp, query, conversation_history, tools) ==
    LET p == Merge(bp, [messages |-> <<[role |-> "user", content |-> query]>>,
                        system |-> SystemContent(conversation_history)])
    IN IF tools # None
       THEN Merge(p, [tools |-> tools[1], tool_choice |-> ToolChoiceAuto])
       ELSE p

\* ai_generator.py:72-81  api_params of the initial request
InitialParams(bp, query, conversation_history, tools) ==
    LET p == Merge(bp, [messages |-> <<[role |-> "user", content |-> query]>>,
                        system |-> SystemContent(conversation_history)])
    IN IF TruthyList(tools)
       THEN Merge(p, [tools |-> tools[1], tool_choice |-> ToolChoiceAuto])
       ELSE p

\* the follow-up request carries the system prompt without the history
FollowUpParams_PromptOnly(bp, base, msgs) ==
    LET p == Merge(bp, [messages |-> msgs, system |-> <<SYSTEM_PROMPT>>])
    IN IF "tools" \in DOMAIN base
       THEN Merge(p, [tools |-> base.tools, tool_choice |-> ToolChoiceAuto])
       ELSE p

\* the follow-up request is built without self.base_params
FollowUpParams_NoSampling(bp, base, msgs) ==
    LET p == [messages |-> msgs, system |-> base.system]
    IN IF "tools" \in DOMAIN base
       THEN Merge(p, [tools |-> base.tools, tool_choice |-> ToolChoiceAuto])
       ELSE p

\* the follow-up request carries the query and the messages of the latest
\* round only
FollowUpParams_LatestRound(bp, base, msgs) ==
    LET latest == IF Len(msgs) <= 3 THEN msgs
                  ELSE <<msgs[1]>> \o SubSeq(msgs, Len(msgs) - 1, Len(msgs))
        p == Merge(bp, [messages |-> latest, system |-> base.system])
    IN IF "tools" \in DOMAIN base
       THEN Merge(p, [tools |-> base.tools, tool_choice |-> ToolChoiceAuto])
       ELSE p

\* follow_up_params without the tools, as before the multi-round fix
FollowUpParams_NoTools(bp, base, msgs) ==
    Merge(bp, [messages |-> msgs, system |-> base.system])

\* ai_generator.py:151-160  follow_up_params
FollowUpParams(bp, base, msgs) ==
    LET p == Merge(bp, [messages |-> msgs, system |-> base.system])
    IN IF "tools" \in DOMAIN base
       THEN Merge(p, [tools |-> base.tools, tool_choice |-> ToolChoiceAuto])
       ELSE p

\* ai_generator.py:91 / :175  "return response.content[0].text":
\* IndexError on an empty content list, AttributeError when the first block
\* is a tool_use block (it has no attribute text)
ReturnText(response) ==
    IF Len(response.content) = 0
    THEN [outcome |-> "raised", value |-> "IndexError"]
    ELSE IF response.content[1].type # "text"
         THEN [outcome |-> "raised", value |-> "AttributeError"]
         ELSE [outcome |-> "returned", value |-> response.content[1].text]

\* a type test that no block passes
NextToolIdx_WrongType(content, from) == Len(content) + 1

\* ai_generator.py:132-133  the for loop with its type test: the index of
\* the first tool_use block at or after position from, Len + 1 if none
RECURSIVE NextToolIdx(_, _)
NextToolIdx(content, from) ==
    IF from > Len(content) THEN Len(content) + 1
    ELSE IF content[from].type = "tool_use" THEN from
         ELSE NextToolIdx(content, from + 1)

\* the entry keyed to the id of the first block of the response instead of
\* the id of the block that was executed
ToolResultEntry_FirstId(block, tool_result) ==
    [type |-> "tool_result", tool_use_id |-> <<block.id[1], block.id[2], 1>>,
     content |-> tool_result]

\* ai_generator.py:132-133  the blocks of a response that pass the type test
ToolBlocks(content) == SelectSeq(content, LAMBDA b : b.type = "tool_use")

\* ai_generator.py:140-144  one tool_result entry
ToolResultEntry(block, tool_result) ==
    [type |-> "tool_result", tool_use_id |-> block.id, content |-> tool_result]

\* the results are collected and never appended
AppendToolResults_Dropped(msgs, results) == msgs

\* ai_generator.py:147-148  "if tool_results: messages.append(...)"
AppendToolResults(msgs, results) ==
    IF Len(results) > 0
    THEN Append(msgs, [role |-> "user", content |-> results])
    ELSE msgs

\* a loop that allows one round more
LoopContinues_OneMore(rc) == rc <= MAX_ROUNDS

\* a loop without a round cap ("while True")
LoopContinues_NoCap(rc) == TRUE

\* ai_generator.py:123  loop condition
LoopContinues(rc) == rc < MAX_ROUNDS

\* Tool manager, tool registry contract of the specification (4.3, 7):
\* execute(name, **kwargs) -> str; an absent name and a failing tool both
\* yield error text, never an exception.
ExecuteTool(tm, name, input) ==
    IF name \notin tm.tools
    THEN <<"error", "Tool not found", name>>
    ELSE IF tm.index = "failing"
         THEN <<"error", "Search failed", name>>
         ELSE <<"ok", name, input>>

IsErrorText(out) == out[1] = "error"

\* ------------------------------------------- catalog, index and tools
\* tests/conftest.py:51-76  sample_course: one course with lessons 0..2
SampleCourse ==
    [title |-> "Introduction to Testing",
     link |-> Some("https://example.com/testing-course"),
     lessons |-> <<[number |-> 0, link |-> Some("https://example.com/testing-course/lesson-0")],
                   [number |-> 1, link |-> Some("https://example.com/testing-course/lesson-1")],
                   [number |-> 2, link |-> Some("https://example.com/testing-course/lesson-2")]>>]

\* tests/conftest.py:79-101  sample_chunks: one chunk per lesson
SampleChunks ==
    <<[course |-> "Introduction to Testing", lesson |-> 0, chunk_index |-> 0],
      [course |-> "Introduction to Testing", lesson |-> 1, chunk_index |-> 1],
      [course |-> "Introduction to Testing", lesson |-> 2, chunk_index |-> 2]>>

\* tests/conftest.py:230  course_titles: the second course of the catalog,
\* lessons 0..1, the first without a link of its own
SecondCourse ==
    [title |-> "Advanced Testing Patterns",
     link |-> Some("https://example.com/advanced-course"),
     lessons |-> <<[number |-> 0, link |-> None],
                   [number |-> 1, link |-> Some("https://example.com/advanced-course/lesson-1")]>>]

\* the chunks of both courses in the ranking order of the index
MixedChunks ==
    <<[course |-> "Introduction to Testing", lesson |-> 0, chunk_index |-> 0],
      [course |-> "Advanced Testing Patterns", lesson |-> 0, chunk_index |-> 0],
      [course |-> "Introduction to Testing", lesson |-> 1, chunk_index |-> 1],
      [course |-> "Advanced Testing Patterns", lesson |-> 1, chunk_index |-> 1],
      [course |-> "Introduction to Testing", lesson |-> 2, chunk_index |-> 2]>>

\* result caps of the configurations: the misconfigured 0 and a cap below
\* the number of stored chunks
ResultCaps == {0, 2}

\* Vector Index (4.1): catalog metadata, stored chunks in ranking order,
\* and max_results, fixed at construction
MakeStore(catalog, chunks, cap) == [catalog |-> catalog, chunks |-> chunks, max_results |-> cap]

\* the indexes of the test-suite: empty, metadata only, populated, and an
\* index that holds two courses
Stores ==
    {MakeStore(<<>>, <<>>, cap) : cap \in ResultCaps}
        \cup {MakeStore(<<SampleCourse>>, <<>>, cap) : cap \in ResultCaps}
        \cup {MakeStore(<<SampleCourse>>, SampleChunks, cap) : cap \in ResultCaps}
        \cup {MakeStore(<<SampleCourse, SecondCourse>>, MixedChunks, cap) : cap \in ResultCaps}

\* tests/conftest.py:128-132  populated_vector_store with a working cap
PopulatedStore == MakeStore(<<SampleCourse>>, SampleChunks, 2)

\* similarity of a course name to a stored title (1, 4.1: an opaque
\* capability): the title itself is nearest, then a title the name is part
\* of, at its beginning before elsewhere
Similarity(course_name, title) ==
    IF course_name = title THEN 3
    ELSE IF <<course_name, title>> \in {<<"Advanced", "Advanced Testing Patterns">>,
                                        <<"Testing", "Introduction to Testing">>} THEN 2
    ELSE IF <<course_name, title>> = <<"Testing", "Advanced Testing Patterns">> THEN 1
    ELSE 0

\* the index of the stored title nearest to the name, the first stored of
\* equally near titles
Nearest(catalog, course_name) ==
    CHOOSE i \in 1..Len(catalog) :
        \A j \in 1..Len(catalog) :
            LET si == Similarity(course_name, catalog[i].title)
                sj == Similarity(course_name, catalog[j].title)
            IN si > sj \/ (si = sj /\ i <= j)

\* a title is resolved only when the name has some similarity to it
ResolveCourseName_Threshold(store, course_name) ==
    IF Len(store.catalog) = 0 THEN None
    ELSE LET title == store.catalog[Nearest(store.catalog, course_name)].title
         IN IF Similarity(course_name, title) = 0 THEN None ELSE Some(title)

\* Course-name resolution (4.1): the nearest title of a non-empty catalog,
\* NotFound (None) only when the catalog is empty
ResolveCourseName(store, course_name) ==
    IF Len(store.catalog) = 0 THEN None
    ELSE Some(store.catalog[Nearest(store.catalog, course_name)].title)

\* the first n elements of a sequence
Take(seq, n) == SubSeq(seq, 1, IF n < Len(seq) THEN n ELSE Len(seq))

\* a lesson filter of 0 is taken for an absent filter
Search_ZeroIsAbsent(store, query_text, course_filter, lesson_filter) ==
    IF store.max_results = 0
    THEN [documents |-> <<>>, error |-> Some("max_results")]
    ELSE [documents |-> Take(SelectSeq(store.chunks, LAMBDA ch :
                                 /\ course_filter = None \/ ch.course = course_filter[1]
                                 /\ \/ lesson_filter = None
                                    \/ lesson_filter[1] = 0
                                    \/ ch.lesson = lesson_filter[1]),
                             store.max_results),
          error |-> None]

\* Vector Index search (4.1): up to max_results best matches, restricted to
\* the course title and / or lesson number given; a cap of zero is reported
\* as an error of the result set, distinct from an empty match
Search(store, query_text, course_filter, lesson_filter) ==
    IF store.max_results = 0
    THEN [documents |-> <<>>, error |-> Some("max_results")]
    ELSE [documents |-> Take(SelectSeq(store.chunks, LAMBDA ch :
                                 /\ course_filter = None \/ ch.course = course_filter[1]
                                 /\ lesson_filter = None \/ ch.lesson = lesson_filter[1]),
                             store.max_results),
          error |-> None]

\* optional keyword argument of a tool call
Kwarg(input, key) == IF key \in DOMAIN input THEN Some(input[key]) ELSE None

\* the link of a provenance record (4.2): the lesson's link if present,
\* else the course's link if present, else absent
SourceLink(store, ch) ==
    LET courses == SelectSeq(store.catalog, LAMBDA c : c.title = ch.course)
        lessons == IF Len(courses) = 0 THEN <<>>
                   ELSE SelectSeq(courses[1].lessons, LAMBDA l : l.number = ch.lesson)
    IN IF Len(lessons) > 0 /\ lessons[1].link # None THEN lessons[1].link
       ELSE IF Len(courses) > 0 THEN courses[1].link
            ELSE None

\* provenance record of a matched chunk (4.2): label "<course> - Lesson <n>"
SourceOf(store, ch) ==
    [text |-> <<ch.course, " - Lesson ", ch.lesson>>, url |-> SourceLink(store, ch)]

\* labelled block of a matched chunk (4.2): "[<course> - Lesson <n>]" and
\* the chunk text
FormatChunk(ch) == [header |-> <<"[", ch.course, " - Lesson ", ch.lesson, "]">>,
                    text |-> <<"chunk", ch.chunk_index>>]

\* messages of the content search tool (4.2, 7)
NoCourseMessage(course_name) == <<"No course found matching", course_name>>
ConfigErrorMessage == <<"Configuration error", "MAX_RESULTS">>
EmptyMessage == <<"No relevant content found">>

\* Content Search Tool execute (4.2): the text it returns and the list that
\* overwrites its last_sources; resolutions are the results of the
\* course-name resolutions it made and searches the number of searches it
\* made on the index
CourseSearchExecute(store, input) ==
    LET course_name == Kwarg(input, "course_name")
        resolved == IF course_name = None THEN None
                    ELSE ResolveCourseName(store, course_name[1])
        resolutions == IF course_name = None THEN <<>> ELSE <<resolved>>
    IN IF course_name # None /\ resolved = None
       THEN [out |-> NoCourseMessage(course_name[1]), sources |-> <<>>,
             resolutions |-> resolutions, searches |-> 0]
       ELSE LET results == Search(store, input.query, resolved, Kwarg(input, "lesson_number"))
                text == IF results.error # None THEN ConfigErrorMessage
                        ELSE IF Len(results.documents) = 0 THEN EmptyMessage
                        ELSE <<"results", [i \in 1..Len(results.documents) |->
                                              FormatChunk(results.documents[i])]>>
            IN [out |-> text,
                sources |-> [i \in 1..Len(results.documents) |->
                                SourceOf(store, results.documents[i])],
                resolutions |-> resolutions, searches |-> 1]

\* Outline Tool execute (4.2): title, link and lessons of the resolved
\* course; the course itself is its single provenance entry
CourseOutlineExecute(store, input) ==
    LET resolved == ResolveCourseName(store, input.course_name)
    IN IF resolved = None
       THEN [out |-> NoCourseMessage(input.course_name), sources |-> <<>>,
             resolutions |-> <<resolved>>, searches |-> 0]
       ELSE LET course == SelectSeq(store.catalog, LAMBDA c : c.title = resolved[1])[1]
            IN [out |-> <<"outline", course.title, course.link,
                          [i \in 1..Len(course.lessons) |-> course.lessons[i].number]>>,
                sources |-> <<[text |-> <<course.title>>, url |-> course.link]>>,
                resolutions |-> <<resolved>>, searches |-> 0]

\* Tool Registry (4.3): the registered names in registration order
Registration == <<"search_course_content", "get_course_outline">>

\* the slots without any record
NoSources == [name \in RegisteredTools |-> <<>>]

\* Tool Registry execute (4.3): dispatch by name; the named tool overwrites
\* its own last_sources, an unknown name yields error text and no write
RegistryExecute(store, slots, name, input) ==
    IF name \notin RegisteredTools
    THEN [out |-> <<"error", "Tool not found", name>>, slots |-> slots,
          resolutions |-> <<>>, searches |-> 0]
    ELSE LET r == IF name = "search_course_content"
                  THEN CourseSearchExecute(store, input)
                  ELSE CourseOutlineExecute(store, input)
         IN [out |-> r.out, slots |-> [slots EXCEPT ![name] = r.sources],
             resolutions |-> r.resolutions, searches |-> r.searches]

\* Tool Registry collect_sources (4.3): every tool's last_sources,
\* concatenated in registration order
RECURSIVE CollectFrom(_, _)
CollectFrom(slots, k) ==
    IF k > Len(Registration) THEN <<>>
    ELSE slots[Registration[k]] \o CollectFrom(slots, k + 1)

CollectSources(slots) == CollectFrom(slots, 1)

\* --------------------------------------------------- conversation state
\* Conversation State (4.4), Conversation Turn (3)
Roles == {"user", "assistant"}

\* the last n elements of a sequence
LastN(seq, n) == IF Len(seq) <= n THEN seq ELSE SubSeq(seq, Len(seq) - n + 1, Len(seq))

\* the newest turn is dropped instead of the oldest
Evict_Newest(turns) == IF Len(turns) <= MAX_HISTORY THEN turns ELSE SubSeq(turns, 1, MAX_HISTORY)

\* append (4.4, 3): the sequence is capped, the oldest turn is evicted first
Evict(turns) == LastN(turns, MAX_HISTORY)

\* get_history (4.4): a turn as a line of the alternating-turn text
RenderTurn(turn) == <<turn.role, ": ", turn.text>>

\* get_history (4.4): the MAX_HISTORY most recent turns, rendered
GetHistory(turns) ==
    LET recent == LastN(turns, MAX_HISTORY)
    IN [i \in 1..Len(recent) |-> RenderTurn(recent[i])]

\* --------------------------------------------------------- query endpoint
\* tests/conftest.py:235  mock_session_manager.create_session.return_value
MOCK_SESSION_ID == "test-session-123"

\* tests/conftest.py:219-225  mock_system.query.return_value
MockAnswer == "This is a test answer about unit testing."
MockSources == <<[text |-> "Introduction to Testing - Lesson 1",
                  url |-> Some("https://example.com/lesson-1")],
                 [text |-> "Introduction to Testing - Lesson 2",
                  url |-> Some("https://example.com/lesson-2")]>>

\* tests/conftest.py:262-264  QueryRequest: query and Optional session_id
ApiRequests ==
    {[query |-> q, session_id |-> sid] :
        q \in {"What is unit testing?"},
        sid \in {None, Some(""), Some("existing-session-456")}}

\* tests/test_api_endpoints.py:102  query.side_effect: the exceptions the
\* mocked query raises, with and without a message
Exceptions ==
    {[type |-> "Exception", args |-> <<"Database connection failed">>],
     [type |-> "RuntimeError", args |-> <<"Index unavailable">>],
     [type |-> "Exception", args |-> <<>>]}

\* tests/conftest.py:296  str(e): the message the exception was built with,
\* the empty string when it was built without one
Str(e) == IF Len(e.args) = 0 THEN "" ELSE e.args[1]

\* tests/conftest.py:219 / test_api_endpoints.py:102  the mocked query
\* returns its return_value (None) or raises its side_effect
QueryBehaviours == {None} \cup {Some(e) : e \in Exceptions}

\* a handler that creates a session for every request
NeedsSession_Always(request) == TRUE

\* tests/conftest.py:284  "if not session_id"
NeedsSession(request) == ~TruthyStr(request.session_id)

\* the 500 response names no cause
QueryDocuments_GenericDetail(request, behaviour) ==
    LET created == IF NeedsSession(request) THEN 1 ELSE 0
        session_id == IF NeedsSession(request) THEN MOCK_SESSION_ID
                      ELSE request.session_id[1]
    IN [request |-> request,
        create_session_calls |-> created,
        query_call |-> [query |-> request.query, session_id |-> session_id],
        raised |-> behaviour,
        response |-> IF behaviour = None
                     THEN [status |-> 200, answer |-> MockAnswer, sources |-> MockSources,
                           session_id |-> session_id]
                     ELSE [status |-> 500, detail |-> "Internal Server Error"]]

\* tests/conftest.py:280-296  query_documents: what the handler calls and
\* what it answers for one request; raised is the exception the except
\* clause caught
QueryDocuments(request, behaviour) ==
    LET created == IF NeedsSession(request) THEN 1 ELSE 0
        session_id == IF NeedsSession(request) THEN MOCK_SESSION_ID
                      ELSE request.session_id[1]
    IN [request |-> request,
        create_session_calls |-> created,
        query_call |-> [query |-> request.query, session_id |-> session_id],
        raised |-> behaviour,
        response |-> IF behaviour = None
                     THEN [status |-> 200, answer |-> MockAnswer, sources |-> MockSources,
                           session_id |-> session_id]
                     ELSE [status |-> 500, detail |-> Str(behaviour[1])]]

\* ---------------------------------------------------------------- state
VARIABLES
    base_params,       \* AIGenerator.base_params
    state,             \* position of the call in the protocol
    api_params,        \* generate_response: api_params (None when no call)
    tool_manager,      \* generate_response: tool_manager argument
    messages,          \* _handle_tool_execution: messages
    current_response,  \* _handle_tool_execution: current_response
    round_count,       \* _handle_tool_execution: round_count
    tool_results,      \* _handle_tool_execution: tool_results
    block_idx,         \* position of the iterator of the for loop over content
    inflight,          \* ids of tool executions that were started and have not returned
    args,              \* the arguments the caller passed to generate_response
    requests,          \* kwargs of every client.messages.create call of this query
    stops,             \* stop reasons of the responses received in this query
    tool_asked,        \* for each response received: does it hold a tool_use block
    tool_calls,        \* arguments of every execute_tool call of this query
    events,            \* start / return events of the tool executions
    batches,           \* rounds of tool execution begun in this query
    outcome,           \* how the call ended: running, returned or raised, with value
    store,             \* Vector Index: catalog, chunks, max_results
    last_sources,      \* Tool Registry: last_sources of each registered tool
    tags,              \* for each record of last_sources: the query whose execution wrote it
    last_exec,         \* the latest direct execution of a tool: name, input, output,
                       \* and what it asked of the catalog and of the index
    pc,                \* answer_query of each caller: position in the query
    rounds,            \* answer_query of each caller: rounds begun by the orchestrator
    calls,             \* answer_query of each caller: tool executions of the current round
    serial,            \* number of the query each caller is running
    nq,                \* queries started so far
    matched,           \* records of the chunks the content searches of each caller's query matched
    own,               \* the records each caller's executions wrote, per tool
    got,               \* the sources each caller's answer_query collected
    got_tags,          \* for each record of got: the query whose execution wrote it
    touched,           \* per caller: the tools whose last_sources another caller wrote last
    sessions,          \* Conversation State: the stored turns of each created session
    appended,          \* every turn appended to each session, in append order
    turn_count,        \* turns appended so far
    handled,           \* query endpoint: calls and response of each request handled
    frames             \* calls of generate_response that run at the same time on one
                       \* generator: position, locals and logs of each call

\* the registry, the index and the queries that run on them
rag_vars == <<store, last_sources, tags, last_exec, pc, rounds, calls, serial, nq,
              matched, own, got, got_tags, touched>>

\* the conversation state
session_vars == <<sessions, appended, turn_count>>

\* what a call of generate_response leaves alone
outer == <<rag_vars, session_vars, handled, frames>>

vars == <<base_params, state, api_params, tool_manager, messages, current_response,
          round_count, tool_results, block_idx, inflight, args, requests, stops,
          tool_asked, tool_calls, events, batches, outcome, outer>>


locals == <<api_params, tool_manager, messages, current_response, round_count,
            tool_results, block_idx>>
logs == <<args, requests, stops, tool_asked, tool_calls, events, batches>>

\* the state of the generator
generator_vars == <<base_params, state, locals, inflight, logs, outcome, frames>>

Terminal == {"Answered", "RoundCapReached"}
Ended == Terminal \cup {"Failed"}

NotStarted == [outcome |-> "none", value |-> "none"]
Running == [outcome |-> "running", value |-> "none"]

\* ai_generator.py:36-45  __init__
InitGenerator ==
    /\ base_params = BaseParams("claude-model")
    /\ state = "Idle"
    /\ api_params = None
    /\ tool_manager = None
    /\ messages = <<>>
    /\ current_response = None
    /\ round_count = 0
    /\ tool_results = <<>>
    /\ block_idx = 0
    /\ inflight = {}
    /\ args = None
    /\ requests = <<>>
    /\ stops = <<>>
    /\ tool_asked = <<>>
    /\ tool_calls = <<>>
    /\ events = <<>>
    /\ batches = 0
    /\ outcome = NotStarted

\* the callers of answer_query
Callers == {1, 2}

\* a registry with its two tools on the index st, no query running
InitRag(st) ==
    /\ store = st
    /\ last_sources = NoSources
    /\ tags = NoSources
    /\ last_exec = None
    /\ pc = [c \in Callers |-> "Idle"]
    /\ rounds = [c \in Callers |-> 0]
    /\ calls = [c \in Callers |-> 0]
    /\ serial = [c \in Callers |-> 0]
    /\ nq = 0
    /\ matched = [c \in Callers |-> {}]
    /\ own = [c \in Callers |-> NoSources]
    /\ got = [c \in Callers |-> <<>>]
    /\ got_tags = [c \in Callers |-> <<>>]
    /\ touched = [c \in Callers |-> {}]

\* no session, no request handled
InitSessions ==
    /\ sessions = <<>>
    /\ appended = <<>>
    /\ turn_count = 0
    /\ handled = <<>>

\* ai_generator.py:47-50, 93, 118-121  the locals of a call that has not
\* assigned them yet
NoLocals == [api_params |-> None, messages |-> <<>>, current_response |-> None,
             round_count |-> 0, tool_results |-> <<>>, block_idx |-> 0]

\* no call of generate_response is running
InitFrames ==
    frames = [c \in Callers |->
                 [pc |-> "Idle", requests |-> <<>>, batches |-> 0, tool_calls |-> <<>>,
                  outcome |-> NotStarted, local |-> NoLocals]]

\* the generator and the system around it after construction
Init ==
    /\ InitGenerator
    /\ InitFrames
    /\ InitRag(PopulatedStore)
    /\ InitSessions

\* the frame of the call is gone once it returned or raised
DropLocals ==
    /\ api_params' = None
    /\ tool_manager' = None
    /\ messages' = <<>>
    /\ current_response' = None
    /\ round_count' = 0
    /\ tool_results' = <<>>
    /\ block_idx' = 0

\* ai_generator.py:47-84  generate_response up to the first
\* client.messages.create call
GenerateResponse(query, conversation_history, tools, tm) ==
    /\ state = "Idle"
    /\ LET p == InitialParams(base_params, query, conversation_history, tools)
       IN /\ api_params' = Some(p)
          /\ requests' = <<p>>
    /\ tool_manager' = tm
    /\ args' = Some([query |-> query, conversation_history |-> conversation_history,
                     tools |-> tools, tool_manager |-> tm])
    /\ state' = "AwaitingModel"
    /\ messages' = <<>>
    /\ current_response' = None
    /\ round_count' = 0
    /\ tool_results' = <<>>
    /\ block_idx' = 0
    /\ inflight' = {}
    /\ stops' = <<>>
    /\ tool_asked' = <<>>
    /\ tool_calls' = <<>>
    /\ events' = <<>>
    /\ batches' = 0
    /\ outcome' = Running
    /\ UNCHANGED <<outer, base_params>>

\* leave the call with "return response.content[0].text" in state st
ReturnFrom(st, response) ==
    /\ state' = st
    /\ outcome' = ReturnText(response)
    /\ DropLocals

\* the loop is entered without a test for the tool manager
InitialResponse_NoManagerTest(stop, shape) ==
    /\ state = "AwaitingModel"
    /\ round_count = 0
    /\ CanAnswer(requests[Len(requests)], stop, shape)
    /\ LET response == MakeResponse(Len(requests), stop, shape)
       IN /\ stops' = Append(stops, stop)
          /\ tool_asked' = Append(tool_asked, Len(ToolBlocks(response.content)) > 0)
          /\ IF response.stop_reason = "tool_use"
             THEN /\ state' = "ToolRequested"
                  /\ messages' = api_params[1].messages
                  /\ current_response' = Some(response)
                  /\ UNCHANGED <<api_params, tool_manager, round_count, tool_results,
                                 block_idx, outcome>>
             ELSE ReturnFrom("Answered", response)
    /\ UNCHANGED <<outer, base_params, inflight, args, requests, tool_calls, events, batches>>

\* the tools of the initial response are executed whatever its stop reason
InitialResponse_AnyStop(stop, shape) ==
    /\ state = "AwaitingModel"
    /\ round_count = 0
    /\ CanAnswer(requests[Len(requests)], stop, shape)
    /\ LET response == MakeResponse(Len(requests), stop, shape)
       IN /\ stops' = Append(stops, stop)
          /\ tool_asked' = Append(tool_asked, Len(ToolBlocks(response.content)) > 0)
          /\ IF Len(ToolBlocks(response.content)) > 0 /\ tool_manager # None
             THEN /\ state' = "ToolRequested"
                  /\ messages' = api_params[1].messages
                  /\ current_response' = Some(response)
                  /\ UNCHANGED <<api_params, tool_manager, round_count, tool_results,
                                 block_idx, outcome>>
             ELSE ReturnFrom("Answered", response)
    /\ UNCHANGED <<outer, base_params, inflight, args, requests, tool_calls, events, batches>>

\* ai_generator.py:84-91  the initial response arrives
InitialResponse(stop, shape) ==
    /\ state = "AwaitingModel"
    /\ round_count = 0
    /\ CanAnswer(requests[Len(requests)], stop, shape)
    /\ LET response == MakeResponse(Len(requests), stop, shape)
       IN /\ stops' = Append(stops, stop)
          /\ tool_asked' = Append(tool_asked, Len(ToolBlocks(response.content)) > 0)
          /\ IF response.stop_reason = "tool_use" /\ tool_manager # None
             THEN \* line 88 and lines 118-121
                  /\ state' = "ToolRequested"
                  /\ messages' = api_params[1].messages
                  /\ current_response' = Some(response)
                  /\ UNCHANGED <<api_params, tool_manager, round_count, tool_results,
                                 block_idx, outcome>>
             ELSE ReturnFrom("Answered", response)
    /\ UNCHANGED <<outer, base_params, inflight, args, requests, tool_calls, events, batches>>

\* the response that asks for the tools is not added to the transcript
BeginRound_NoAssistantMessage ==
    /\ state = "ToolRequested"
    /\ LoopContinues(round_count)
    /\ round_count < RoundLimit
    /\ round_count' = round_count + 1
    /\ tool_results' = <<>>
    /\ block_idx' = NextToolIdx(current_response[1].content, 1)
    /\ batches' = batches + 1
    /\ state' = "ToolsExecuting"
    /\ UNCHANGED <<outer, base_params, api_params, tool_manager, messages, current_response,
                   inflight, args, requests, stops, tool_asked, tool_calls, events, outcome>>

\* ai_generator.py:123-131  while test, round_count += 1, the assistant
\* message, tool_results = [] and the for loop up to its first tool_use block
BeginRound ==
    /\ state = "ToolRequested"
    /\ LoopContinues(round_count)
    /\ round_count < RoundLimit
    /\ round_count' = round_count + 1
    /\ messages' = Append(messages, [role |-> "assistant",
                                     content |-> current_response[1].content])
    /\ tool_results' = <<>>
    /\ block_idx' = NextToolIdx(current_response[1].content, 1)
    /\ batches' = batches + 1
    /\ state' = "ToolsExecuting"
    /\ UNCHANGED <<outer, base_params, api_params, tool_manager, current_response, inflight,
                   args, requests, stops, tool_asked, tool_calls, events, outcome>>

\* the tool_use block whose execution is in flight
InflightBlock(content, ids) == content[CHOOSE i \in 1..Len(content) :
                                          content[i].type = "tool_use" /\ content[i].id \in ids]

\* the executions of a round are dispatched without waiting for the
\* previous one to return
ToolCall_NoWait ==
    /\ state = "ToolsExecuting"
    /\ block_idx <= Len(current_response[1].content)
    /\ LET block == current_response[1].content[block_idx]
       IN /\ inflight' = inflight \cup {block.id}
          /\ tool_calls' = Append(tool_calls, [name |-> block.name, input |-> block.input])
          /\ events' = Append(events, [ev |-> "start", id |-> block.id])
    /\ block_idx' = NextToolIdx(current_response[1].content, block_idx + 1)
    /\ UNCHANGED <<outer, base_params, state, api_params, tool_manager, messages,
                   current_response, round_count, tool_results, args, requests,
                   stops, tool_asked, batches, outcome>>

\* the for loop is left after the first tool_use block
ToolCall_SkipsRest ==
    /\ state = "ToolsExecuting"
    /\ inflight = {}
    /\ block_idx <= Len(current_response[1].content)
    /\ LET block == current_response[1].content[block_idx]
       IN /\ inflight' = inflight \cup {block.id}
          /\ tool_calls' = Append(tool_calls, [name |-> block.name, input |-> block.input])
          /\ events' = Append(events, [ev |-> "start", id |-> block.id])
    /\ block_idx' = Len(current_response[1].content) + 1
    /\ UNCHANGED <<outer, base_params, state, api_params, tool_manager, messages,
                   current_response, round_count, tool_results, args, requests,
                   stops, tool_asked, batches, outcome>>

\* ai_generator.py:132-138  the for loop takes the next tool_use block and
\* calls tool_manager.execute_tool(name, **input); the call blocks, so no
\* other execution is in flight
ToolCall ==
    /\ state = "ToolsExecuting"
    /\ inflight = {}
    /\ block_idx <= Len(current_response[1].content)
    /\ LET block == current_response[1].content[block_idx]
       IN /\ inflight' = inflight \cup {block.id}
          /\ tool_calls' = Append(tool_calls, [name |-> block.name, input |-> block.input])
          /\ events' = Append(events, [ev |-> "start", id |-> block.id])
    /\ block_idx' = NextToolIdx(current_response[1].content, block_idx + 1)
    /\ UNCHANGED <<outer, base_params, state, api_params, tool_manager, messages,
                   current_response, round_count, tool_results, args, requests,
                   stops, tool_asked, batches, outcome>>

\* a tool result with error text ends the loop at once (termination
\* condition 3 of the docstring read as a break)
ToolReturn_EndsOnError ==
    /\ state = "ToolsExecuting"
    /\ inflight # {}
    /\ LET block == InflightBlock(current_response[1].content, inflight)
           tool_result == ExecuteTool(tool_manager[1], block.name, block.input)
       IN /\ events' = Append(events, [ev |-> "return", id |-> block.id, out |-> tool_result])
          /\ inflight' = inflight \ {block.id}
          /\ IF IsErrorText(tool_result)
             THEN ReturnFrom("Answered", current_response[1])
             ELSE /\ tool_results' = Append(tool_results, ToolResultEntry(block, tool_result))
                  /\ UNCHANGED <<state, api_params, tool_manager, messages, current_response,
                                 round_count, block_idx, outcome>>
    /\ UNCHANGED <<outer, base_params, args, requests, stops, tool_asked, tool_calls, batches>>

\* ai_generator.py:135-144  execute_tool returns and its result entry is
\* appended to tool_results
ToolReturn ==
    /\ state = "ToolsExecuting"
    /\ inflight # {}
    /\ LET block == InflightBlock(current_response[1].content, inflight)
           tool_result == ExecuteTool(tool_manager[1], block.name, block.input)
       IN /\ tool_results' = Append(tool_results, ToolResultEntry(block, tool_result))
          /\ events' = Append(events, [ev |-> "return", id |-> block.id, out |-> tool_result])
          /\ inflight' = inflight \ {block.id}
    /\ UNCHANGED <<outer, base_params, state, api_params, tool_manager, messages,
                   current_response, round_count, block_idx, args, requests, stops,
                   tool_asked,
                   tool_calls, batches, outcome>>

\* after the tools of the last round the response that asked for them is
\* returned without a follow-up invocation
FollowUp_NoFinalInvocation ==
    /\ state = "ToolsExecuting"
    /\ inflight = {}
    /\ block_idx > Len(current_response[1].content)
    /\ IF LoopContinues(round_count)
       THEN LET msgs == AppendToolResults(messages, tool_results)
            IN /\ messages' = msgs
               /\ requests' = Append(requests, FollowUpParams(base_params, api_params[1], msgs))
               /\ state' = "AwaitingModel"
               /\ UNCHANGED <<api_params, tool_manager, current_response, round_count,
                              tool_results, block_idx, outcome>>
       ELSE /\ ReturnFrom("RoundCapReached", current_response[1])
            /\ UNCHANGED requests
    /\ UNCHANGED <<outer, base_params, inflight, args, stops, tool_asked,
                   tool_calls, events, batches>>

\* ai_generator.py:146-163  the tool results are appended as one message
\* and the follow-up request is sent
FollowUp ==
    /\ state = "ToolsExecuting"
    /\ inflight = {}
    /\ block_idx > Len(current_response[1].content)
    /\ LET msgs == AppendToolResults(messages, tool_results)
       IN /\ messages' = msgs
          /\ requests' = Append(requests, FollowUpParams(base_params, api_params[1], msgs))
    /\ state' = "AwaitingModel"
    /\ UNCHANGED <<outer, base_params, api_params, tool_manager, current_response, round_count,
                   tool_results, block_idx, inflight, args, stops, tool_asked,
                   tool_calls, events,
                   batches, outcome>>

\* at the round cap the text of the response before the last is returned
FollowUpResponse_ReturnsPrevious(stop, shape) ==
    /\ state = "AwaitingModel"
    /\ round_count > 0
    /\ CanAnswer(requests[Len(requests)], stop, shape)
    /\ LET response == MakeResponse(Len(requests), stop, shape)
       IN /\ stops' = Append(stops, stop)
          /\ tool_asked' = Append(tool_asked, Len(ToolBlocks(response.content)) > 0)
          /\ IF response.stop_reason # "tool_use"
             THEN ReturnFrom("Answered", response)
             ELSE IF LoopContinues(round_count)
                  THEN /\ state' = "ToolRequested"
                       /\ current_response' = Some(response)
                       /\ UNCHANGED <<api_params, tool_manager, messages, round_count,
                                      tool_results, block_idx, outcome>>
                  ELSE ReturnFrom("RoundCapReached", current_response[1])
    /\ UNCHANGED <<outer, base_params, inflight, args, requests, tool_calls, events, batches>>

\* ai_generator.py:163-175  the follow-up response arrives: break, next
\* round, or the round cap
FollowUpResponse(stop, shape) ==
    /\ state = "AwaitingModel"
    /\ round_count > 0
    /\ CanAnswer(requests[Len(requests)], stop, shape)
    /\ LET response == MakeResponse(Len(requests), stop, shape)
       IN /\ stops' = Append(stops, stop)
          /\ tool_asked' = Append(tool_asked, Len(ToolBlocks(response.content)) > 0)
          /\ IF response.stop_reason # "tool_use"
             THEN ReturnFrom("Answered", response)
             ELSE IF LoopContinues(round_count)
                  THEN /\ state' = "ToolRequested"
                       /\ current_response' = Some(response)
                       /\ UNCHANGED <<api_params, tool_manager, messages, round_count,
                                      tool_results, block_idx, outcome>>
                  ELSE ReturnFrom("RoundCapReached", response)
    /\ UNCHANGED <<outer, base_params, inflight, args, requests, tool_calls, events, batches>>

\* the failed invocation is sent again instead of raising
ModelFails_Retried ==
    /\ state = "AwaitingModel"
    /\ Len(requests) <= RoundLimit + 1
    /\ requests' = Append(requests, requests[Len(requests)])
    /\ UNCHANGED <<outer, base_params, state, locals, inflight, args, stops, tool_asked,
                   tool_calls, events, batches, outcome>>

\* ai_generator.py:84 / :163  client.messages.create raises; nothing
\* catches it
ModelFails ==
    /\ state = "AwaitingModel"
    /\ state' = "Failed"
    /\ outcome' = [outcome |-> "raised", value |-> "UpstreamFailure"]
    /\ DropLocals
    /\ UNCHANGED <<outer, base_params, inflight, logs>>

\* ai_generator.py:91 / :175  the caller has the return value or the
\* exception; the generator keeps nothing of the query but base_params
QueryDone ==
    /\ state \in Ended
    /\ state' = "Idle"
    /\ UNCHANGED <<outer, base_params, locals>>
    /\ inflight' = {}
    /\ args' = None
    /\ requests' = <<>>
    /\ stops' = <<>>
    /\ tool_asked' = <<>>
    /\ tool_calls' = <<>>
    /\ events' = <<>>
    /\ batches' = 0
    /\ outcome' = NotStarted

StartCall ==
    \E q \in Queries, h \in Histories, t \in ToolsArgs, tm \in ToolManagers :
        GenerateResponse(q, h, t, tm)

ModelAnswersFirst == \E stop \in StopReasons, shape \in Shapes : InitialResponse(stop, shape)

ModelAnswersFollowUp == \E stop \in StopReasons, shape \in Shapes : FollowUpResponse(stop, shape)

Next ==
    \/ StartCall
    \/ ModelAnswersFirst
    \/ BeginRound
    \/ ToolCall
    \/ ToolReturn
    \/ FollowUp
    \/ ModelAnswersFollowUp
    \/ ModelFails
    \/ QueryDone

Spec == Init /\ [][Next]_vars

\* The calls of one query when every model call and every tool call
\* returns: the code runs on after each of them.
Progress ==
    \/ ModelAnswersFirst
    \/ BeginRound
    \/ ToolCall
    \/ ToolReturn
    \/ FollowUp
    \/ ModelAnswersFollowUp

LiveNext ==
    \/ StartCall
    \/ Progress
    \/ QueryDone

LiveSpec == Init /\ [][LiveNext]_vars /\ WF_vars(Progress)

\* ----------------------------------------------- queries on a registry
\* answer_query (6) run by caller c on the shared registry: the orchestrator
\* protocol of generate_response as the registry sees it (rounds of tool
\* executions), then collect_sources and reset_sources (4.5).

\* what the model asks the registry for in these queries
QueryRequests ==
    { [name |-> "search_course_content", input |-> [query |-> "testing"]],
      [name |-> "search_course_content", input |-> [query |-> "testing", lesson_number |-> 2]],
      [name |-> "get_course_outline",    input |-> [course_name |-> "Testing"]] }

\* the tag of the records the running query of caller c writes
Me(c) == <<c, serial[c]>>

\* answer_query is called without session id: the request goes to the model
AnswerQuery(c) ==
    /\ pc[c] = "Idle"
    /\ nq < MaxQueries
    /\ nq' = nq + 1
    /\ serial' = [serial EXCEPT ![c] = nq + 1]
    /\ pc' = [pc EXCEPT ![c] = "AwaitingModel"]
    /\ rounds' = [rounds EXCEPT ![c] = 0]
    /\ calls' = [calls EXCEPT ![c] = 0]
    /\ matched' = [matched EXCEPT ![c] = {}]
    /\ own' = [own EXCEPT ![c] = NoSources]
    /\ got' = [got EXCEPT ![c] = <<>>]
    /\ got_tags' = [got_tags EXCEPT ![c] = <<>>]
    /\ touched' = [touched EXCEPT ![c] = {}]
    /\ UNCHANGED <<generator_vars, session_vars, handled, store, last_sources, tags, last_exec>>

\* ai_generator.py:87-88, 123-131, 167  the response asks for tools and the
\* round cap allows another round
ModelAsksForTools(c) ==
    /\ pc[c] = "AwaitingModel"
    /\ LoopContinues(rounds[c])
    /\ rounds' = [rounds EXCEPT ![c] = rounds[c] + 1]
    /\ calls' = [calls EXCEPT ![c] = 0]
    /\ pc' = [pc EXCEPT ![c] = "ToolsExecuting"]
    /\ UNCHANGED <<generator_vars, session_vars, handled, store, last_sources, tags, last_exec, serial, nq,
                   matched, own, got, got_tags, touched>>

\* a caller whose query has not collected yet
Uncollected(c) == pc[c] \in {"AwaitingModel", "ToolsExecuting", "Returned"}

\* ai_generator.py:132-144  one tool_use block is executed through the
\* registry; the executed tool overwrites its last_sources
QueryToolCall(c, req) ==
    /\ pc[c] = "ToolsExecuting"
    /\ calls[c] < MaxCalls
    /\ LET r == RegistryExecute(store, last_sources, req.name, req.input)
           written == req.name \in RegisteredTools
           n == IF written THEN Len(r.slots[req.name]) ELSE 0
       IN /\ last_sources' = r.slots
          /\ tags' = IF written THEN [tags EXCEPT ![req.name] = [i \in 1..n |-> Me(c)]]
                     ELSE tags
          /\ own' = IF written THEN [own EXCEPT ![c][req.name] = r.slots[req.name]]
                    ELSE own
          /\ matched' = IF req.name = "search_course_content"
                        THEN [matched EXCEPT ![c] = matched[c] \cup
                                 {r.slots[req.name][i] : i \in 1..n}]
                        ELSE matched
          /\ touched' = [d \in Callers |->
                            IF ~written THEN touched[d]
                            ELSE IF d = c THEN touched[d] \ {req.name}
                            ELSE IF Uncollected(d) /\ (n > 0 \/ own[d][req.name] # <<>>)
                                 THEN touched[d] \cup {req.name}
                                 ELSE touched[d] \ {req.name}]
    /\ calls' = [calls EXCEPT ![c] = calls[c] + 1]
    /\ UNCHANGED <<generator_vars, session_vars, handled, store, last_exec, pc, rounds, serial, nq, got, got_tags>>

\* ai_generator.py:146-163  the results of the round go to the model
RoundOver(c) ==
    /\ pc[c] = "ToolsExecuting"
    /\ pc' = [pc EXCEPT ![c] = "AwaitingModel"]
    /\ UNCHANGED <<generator_vars, session_vars, handled, store, last_sources, tags, last_exec, rounds, calls,
                   serial, nq, matched, own, got, got_tags, touched>>

\* ai_generator.py:91 / :175  generate_response returns the answer text
GeneratorReturns(c) ==
    /\ pc[c] = "AwaitingModel"
    /\ pc' = [pc EXCEPT ![c] = "Returned"]
    /\ UNCHANGED <<generator_vars, session_vars, handled, store, last_sources, tags, last_exec, rounds, calls,
                   serial, nq, matched, own, got, got_tags, touched>>

\* ai_generator.py:84 / :163 / :175  generate_response raises: the model
\* invocation failed, or the response has no leading text block
GeneratorRaises(c) ==
    /\ pc[c] = "AwaitingModel"
    /\ pc' = [pc EXCEPT ![c] = "Failed"]
    /\ UNCHANGED <<generator_vars, session_vars, handled, store, last_sources, tags, last_exec, rounds, calls,
                   serial, nq, matched, own, got, got_tags, touched>>

\* the sources are the records the executions of the query itself wrote,
\* as if they were passed through the return values (9)
CollectStep_OwnRecords(c) ==
    /\ pc[c] = "Returned"
    /\ got' = [got EXCEPT ![c] = CollectSources(own[c])]
    /\ got_tags' = [got_tags EXCEPT ![c] = [i \in 1..Len(CollectSources(own[c])) |-> Me(c)]]
    /\ pc' = [pc EXCEPT ![c] = "Collected"]
    /\ UNCHANGED <<generator_vars, session_vars, handled, store, last_sources, tags, last_exec, rounds, calls,
                   serial, nq, matched, own, touched>>

\* 4.5: after the orchestrator returns, collect_sources() is called
CollectStep(c) ==
    /\ pc[c] = "Returned"
    /\ got' = [got EXCEPT ![c] = CollectSources(last_sources)]
    /\ got_tags' = [got_tags EXCEPT ![c] = CollectSources(tags)]
    /\ pc' = [pc EXCEPT ![c] = "Collected"]
    /\ UNCHANGED <<generator_vars, session_vars, handled, store, last_sources, tags, last_exec, rounds, calls,
                   serial, nq, matched, own, touched>>

\* 4.5: then reset_sources() clears every tool's last_sources
ResetStep(c) ==
    /\ pc[c] = "Collected"
    /\ last_sources' = NoSources
    /\ tags' = NoSources
    /\ pc' = [pc EXCEPT ![c] = "Done"]
    /\ touched' = [d \in Callers |->
                      IF d # c /\ Uncollected(d)
                      THEN {name \in RegisteredTools : own[d][name] # <<>>}
                      ELSE touched[d]]
    /\ UNCHANGED <<generator_vars, session_vars, handled, store, last_exec, rounds, calls, serial, nq, matched,
                   own, got, got_tags>>

\* answer_query returns (answer_text, sources) to its caller, which holds
\* the sources until its next query
QueryReturns(c) ==
    /\ pc[c] = "Done"
    /\ pc' = [pc EXCEPT ![c] = "Idle"]
    /\ rounds' = [rounds EXCEPT ![c] = 0]
    /\ calls' = [calls EXCEPT ![c] = 0]
    /\ matched' = [matched EXCEPT ![c] = {}]
    /\ own' = [own EXCEPT ![c] = NoSources]
    /\ UNCHANGED <<generator_vars, session_vars, handled, store, last_sources, tags, last_exec, serial, nq,
                   got, got_tags, touched>>

\* 7: the failure of generate_response is propagated to the caller of
\* answer_query; the steps after the return of the orchestrator are not run
QueryFails(c) ==
    /\ pc[c] = "Failed"
    /\ pc' = [pc EXCEPT ![c] = "Idle"]
    /\ rounds' = [rounds EXCEPT ![c] = 0]
    /\ calls' = [calls EXCEPT ![c] = 0]
    /\ matched' = [matched EXCEPT ![c] = {}]
    /\ own' = [own EXCEPT ![c] = NoSources]
    /\ UNCHANGED <<generator_vars, session_vars, handled, store, last_sources, tags, last_exec, serial, nq,
                   got, got_tags, touched>>

\* one caller: its queries run one after the other
SeqCallers == {1}

RagNext ==
    \/ \E c \in SeqCallers : AnswerQuery(c)
    \/ \E c \in SeqCallers : ModelAsksForTools(c)
    \/ \E c \in SeqCallers, req \in QueryRequests : QueryToolCall(c, req)
    \/ \E c \in SeqCallers : RoundOver(c)
    \/ \E c \in SeqCallers : GeneratorReturns(c)
    \/ \E c \in SeqCallers : GeneratorRaises(c)
    \/ \E c \in SeqCallers : CollectStep(c)
    \/ \E c \in SeqCallers : ResetStep(c)
    \/ \E c \in SeqCallers : QueryReturns(c)
    \/ \E c \in SeqCallers : QueryFails(c)

RagSpec == Init /\ [][RagNext]_vars

\* two callers share the registry (5): each runs one query, and the
\* queries interleave at every call into the model, a tool or the registry
FirstQuery(c) == serial[c] = 0 /\ AnswerQuery(c)

\* one request for each tool of the registry
ConcRequests == {req \in QueryRequests : "lesson_number" \notin DOMAIN req.input}

ConcNext ==
    \/ \E c \in Callers : FirstQuery(c)
    \/ \E c \in Callers : ModelAsksForTools(c)
    \/ \E c \in Callers, req \in ConcRequests : QueryToolCall(c, req)
    \/ \E c \in Callers : RoundOver(c)
    \/ \E c \in Callers : GeneratorReturns(c)
    \/ \E c \in Callers : GeneratorRaises(c)
    \/ \E c \in Callers : CollectStep(c)
    \/ \E c \in Callers : ResetStep(c)
    \/ \E c \in Callers : QueryReturns(c)
    \/ \E c \in Callers : QueryFails(c)

ConcSpec == Init /\ [][ConcNext]_vars

\* ---------------------------------------------- tools executed directly
\* tests/test_search_tool.py  course_search_tool.execute(...) on the
\* indexes of the fixtures
DirectNames == {"Testing", "Advanced", "NonExistent Course"}

DirectRequests ==
    {[name |-> "search_course_content", input |-> i] : i \in
        {[query |-> q] : q \in {"testing", ""}}
        \cup {[query |-> q, course_name |-> cn] :
                 q \in {"testing", ""}, cn \in DirectNames}
        \cup {[query |-> q, lesson_number |-> n] :
                 q \in {"testing", ""}, n \in {0, 2, 7}}
        \cup {[query |-> q, course_name |-> cn, lesson_number |-> n] :
                 q \in {"testing", ""}, cn \in DirectNames,
                 n \in {0, 2, 7}}}
    \cup {[name |-> "get_course_outline", input |-> [course_name |-> cn]] :
             cn \in DirectNames}

\* one execution of a registered tool, outside any query
DirectExecute(req) ==
    /\ \A c \in Callers : pc[c] = "Idle"
    /\ LET r == RegistryExecute(store, last_sources, req.name, req.input)
       IN /\ last_sources' = r.slots
          /\ tags' = [tags EXCEPT ![req.name] =
                         [i \in 1..Len(r.slots[req.name]) |-> <<0, 0>>]]
          /\ last_exec' = Some([name |-> req.name, input |-> req.input, out |-> r.out,
                                 resolutions |-> r.resolutions, searches |-> r.searches])
    /\ UNCHANGED <<generator_vars, session_vars, handled, store, pc, rounds, calls, serial,
                   nq, matched, own, got, got_tags, touched>>

\* the index is one of the indexes of the fixtures
SearchInit ==
    /\ InitGenerator
    /\ InitFrames
    /\ \E st \in Stores : InitRag(st)
    /\ InitSessions

SearchNext == \E req \in DirectRequests : DirectExecute(req)

SearchSpec == SearchInit /\ [][SearchNext]_vars

\* ---------------------------------------------------- sessions in use
\* create_session (4.4): a new session with an opaque, unique id
CreateSession ==
    /\ Len(sessions) < MaxSessions
    /\ sessions' = Append(sessions, <<>>)
    /\ appended' = Append(appended, <<>>)
    /\ UNCHANGED <<generator_vars, rag_vars, handled, turn_count>>

\* append(session_id, role, text) (4.4)
AppendTurn(sid, role) ==
    /\ sid \in 1..Len(sessions)
    /\ turn_count < MaxTurns
    /\ turn_count' = turn_count + 1
    /\ LET turn == [role |-> role, text |-> <<"text", turn_count + 1>>]
       IN /\ sessions' = [sessions EXCEPT ![sid] = Evict(Append(sessions[sid], turn))]
          /\ appended' = [appended EXCEPT ![sid] = Append(appended[sid], turn)]
    /\ UNCHANGED <<generator_vars, rag_vars, handled>>

SessionNext ==
    \/ CreateSession
    \/ \E sid \in 1..MaxSessions, role \in Roles : AppendTurn(sid, role)

SessionSpec == Init /\ [][SessionNext]_vars

\* ------------------------------------------------- requests to the endpoint
\* tests/conftest.py:280-296  POST /api/query is handled
HandleQuery(request, behaviour) ==
    /\ Len(handled) < MaxRequests
    /\ handled' = Append(handled, QueryDocuments(request, behaviour))
    /\ UNCHANGED <<generator_vars, rag_vars, session_vars>>

ApiNext == \E request \in ApiRequests, behaviour \in QueryBehaviours :
               HandleQuery(request, behaviour)

ApiSpec == Init /\ [][ApiNext]_vars

\* ------------------------------ calls interleaved on one generator
\* Two threads call generate_response on the same AIGenerator.  A step is
\* what one call does between two of its blocking calls (the model
\* invocation, a tool execution); the steps of the two calls interleave.

\* the query of each call
CallQuery(c) == IF c = 1 THEN "q1" ELSE "q2"

\* the tool manager both calls pass
SharedToolManager == [tools |-> RegisteredTools, index |-> "ok"]

\* what the endpoint answers to these calls
CallStops == {"end_turn", "tool_use"}
CallShapes ==
    { <<[kind |-> "text"]>>,
      <<[kind |-> "tool_use",
         req |-> [name |-> "search_course_content", input |-> "query=testing"]]>>,
      <<[kind |-> "text"],
        [kind |-> "tool_use", req |-> [name |-> "no_such_tool", input |-> "x=1"]]>> }

\* the locals are attributes of the generator, one set for all calls
Slot_OnInstance(c) == 1

\* ai_generator.py:72, 119-121, 131  api_params, messages, current_response,
\* round_count and tool_results are local variables: each call has its own
Slot(c) == c

LocalsOf(c) == frames[Slot(c)].local

\* ai_generator.py:72-84  the call builds its request and invokes the model
CallStarts(c) ==
    /\ frames[c].pc = "Idle"
    /\ LET p == InitialParams(base_params, CallQuery(c), None, Some(ToolSchemas))
       IN frames' = [frames EXCEPT ![c].pc = "AwaitingModel",
                                   ![c].requests = <<p>>,
                                   ![c].outcome = Running,
                                   ![Slot(c)].local.api_params = Some(p)]
    /\ UNCHANGED <<base_params, state, locals, inflight, logs, outcome,
                   rag_vars, session_vars, handled>>

\* ai_generator.py:124-131  round_count += 1, the assistant message,
\* tool_results = [] and the for loop up to its first tool_use block
RoundBegun(local, response) ==
    [local EXCEPT !.current_response = Some(response),
                  !.round_count = local.round_count + 1,
                  !.messages = Append(local.messages,
                                      [role |-> "assistant", content |-> response.content]),
                  !.tool_results = <<>>,
                  !.block_idx = NextToolIdx(response.content, 1)]

\* ai_generator.py:84-91, 118-131  the initial response arrives: the loop
\* is entered, or the text is returned
CallInitialResponse(c, stop, shape) ==
    /\ frames[c].pc = "AwaitingModel"
    /\ Len(frames[c].requests) = 1
    /\ LET response == MakeResponse(<<c, 1>>, stop, shape)
           entered == [LocalsOf(c) EXCEPT !.messages = LocalsOf(c).api_params[1].messages,
                                          !.round_count = 0]
       IN IF response.stop_reason = "tool_use"
          THEN frames' = [frames EXCEPT ![c].pc = "ToolsExecuting",
                                        ![c].batches = 1,
                                        ![Slot(c)].local = RoundBegun(entered, response)]
          ELSE frames' = [frames EXCEPT ![c].pc = "Answered",
                                        ![c].outcome = ReturnText(response)]
    /\ UNCHANGED <<base_params, state, locals, inflight, logs, outcome,
                   rag_vars, session_vars, handled>>

\* ai_generator.py:132-144  the next tool_use block is executed and its
\* result entry appended
CallToolExecution(c) ==
    /\ frames[c].pc = "ToolsExecuting"
    /\ LocalsOf(c).block_idx <= Len(LocalsOf(c).current_response[1].content)
    /\ LET local == LocalsOf(c)
           block == local.current_response[1].content[local.block_idx]
           tool_result == ExecuteTool(SharedToolManager, block.name, block.input)
       IN frames' = [frames EXCEPT
              ![c].tool_calls = Append(frames[c].tool_calls,
                                       [name |-> block.name, input |-> block.input]),
              ![Slot(c)].local.tool_results =
                  Append(local.tool_results, ToolResultEntry(block, tool_result)),
              ![Slot(c)].local.block_idx =
                  NextToolIdx(local.current_response[1].content, local.block_idx + 1)]
    /\ UNCHANGED <<base_params, state, locals, inflight, logs, outcome,
                   rag_vars, session_vars, handled>>

\* ai_generator.py:146-163  the tool results are appended as one message
\* and the follow-up request is sent
CallFollowUp(c) ==
    /\ frames[c].pc = "ToolsExecuting"
    /\ LocalsOf(c).block_idx > Len(LocalsOf(c).current_response[1].content)
    /\ LET local == LocalsOf(c)
           msgs == AppendToolResults(local.messages, local.tool_results)
       IN frames' = [frames EXCEPT
              ![c].pc = "AwaitingModel",
              ![c].requests = Append(frames[c].requests,
                                     FollowUpParams(base_params, local.api_params[1], msgs)),
              ![Slot(c)].local.messages = msgs]
    /\ UNCHANGED <<base_params, state, locals, inflight, logs, outcome,
                   rag_vars, session_vars, handled>>

\* ai_generator.py:163-175  the follow-up response arrives: break, next
\* round, or the round cap
CallFollowUpResponse(c, stop, shape) ==
    /\ frames[c].pc = "AwaitingModel"
    /\ Len(frames[c].requests) > 1
    /\ LET response == MakeResponse(<<c, Len(frames[c].requests)>>, stop, shape)
           local == LocalsOf(c)
       IN IF response.stop_reason # "tool_use"
          THEN frames' = [frames EXCEPT ![c].pc = "Answered",
                                        ![c].outcome = ReturnText(response),
                                        ![Slot(c)].local.current_response = Some(response)]
          ELSE IF LoopContinues(local.round_count)
               THEN frames' = [frames EXCEPT ![c].pc = "ToolsExecuting",
                                             ![c].batches = frames[c].batches + 1,
                                             ![Slot(c)].local = RoundBegun(local, response)]
               ELSE frames' = [frames EXCEPT ![c].pc = "RoundCapReached",
                                             ![c].outcome = ReturnText(response),
                                             ![Slot(c)].local.current_response = Some(response)]
    /\ UNCHANGED <<base_params, state, locals, inflight, logs, outcome,
                   rag_vars, session_vars, handled>>

CallsNext ==
    \/ \E c \in Callers : CallStarts(c)
    \/ \E c \in Callers, stop \in CallStops, shape \in CallShapes :
           CallInitialResponse(c, stop, shape)
    \/ \E c \in Callers : CallToolExecution(c)
    \/ \E c \in Callers : CallFollowUp(c)
    \/ \E c \in Callers, stop \in CallStops, shape \in CallShapes :
           CallFollowUpResponse(c, stop, shape)

CallsSpec == Init /\ [][CallsNext]_vars

\* ------------------------------------------------------------ observers
Invocations == Len(requests)
IsAssistant(m) == m.role = "assistant"
\* the transcript of the latest request of the query
LastMessages == requests[Len(requests)].messages
\* content of the k-th response as the transcript of the latest request holds it
RoundResponse(k) == SelectSeq(LastMessages, IsAssistant)[k].content
HasToolManager == args # None /\ args[1].tool_manager # None
CallOver == state \in Ended
AllToolUse == \A k \in 1..Len(stops) : stops[k] = "tool_use" /\ tool_asked[k]
\* the output the execution of invocation id returned
OutputOf(id) == events[CHOOSE k \in 1..Len(events) :
                           events[k].ev = "return" /\ events[k].id = id].out
Returned(id) == \E k \in 1..Len(events) : events[k].ev = "return" /\ events[k].id = id

\* ------------------------------------------------------------------- C1
\* C1: whatever the model answers, one call of generate_response makes at
\* most 3 model invocations and begins at most 2 batches of tool executions.
C1_BoundedInvocations == Invocations <= 3 /\ batches <= 2

C1_Witness == state = "RoundCapReached" /\ Invocations = 3 /\ batches = 2

\* ------------------------------------------------------------------- C2
\* C2: when every model call and every tool call returns, a call that is
\* running eventually leaves the loop in Answered (the model stopped asking
\* for tools) or in RoundCapReached (the rounds are used up), whatever the
\* model answers.
C2_Terminates == (outcome.outcome = "running") ~> (state \in Terminal)

C2_Witness == state = "RoundCapReached" /\ AllToolUse /\ Len(stops) = 3

\* ------------------------------------------------------------------- C3
\* C3 as stated: with a tool manager and a model that asks for tools in
\* every response (stop reason tool_use and at least one tool_use block), the
\* call ends only after exactly 3 model invocations and 2 batches, and it
\* ends by returning.
C3_AlwaysToolUseReturns ==
    (HasToolManager /\ AllToolUse /\ CallOver /\ outcome.value # "UpstreamFailure")
        => /\ Invocations = 3
           /\ batches = 2
           /\ outcome.outcome = "returned"

\* ------------------------------------------------------------------- C4
\* C4 as stated: when the first response does not ask for a tool the call
\* is over after one model invocation and no tool execution, and it
\* returned the text of that response.
C4_DirectAnswerReturnsText ==
    (Len(stops) >= 1 /\ stops[1] # "tool_use" /\ ~tool_asked[1])
        => /\ Invocations = 1
           /\ tool_calls = <<>>
           /\ batches = 0
           /\ outcome.outcome = "returned"
           /\ outcome.value[2] = 1

\* ------------------------------------------------------------------- C5
\* C5: when the first and the second response each ask for one tool and the
\* third response does not ask for a tool, the call made exactly 3 model
\* invocations and exactly 2 tool executions, and the tool of the first
\* response was started and had returned before the tool of the second
\* response was started.
C5_Case ==
    /\ Len(stops) = 3
    /\ stops[1] = "tool_use" /\ stops[2] = "tool_use" /\ stops[3] # "tool_use"
    /\ Len(ToolBlocks(RoundResponse(1))) = 1
    /\ Len(ToolBlocks(RoundResponse(2))) = 1

C5_TwoChainedTools ==
    C5_Case =>
        LET b1 == ToolBlocks(RoundResponse(1))[1]
            b2 == ToolBlocks(RoundResponse(2))[1]
        IN /\ Invocations = 3
           /\ tool_calls = <<[name |-> b1.name, input |-> b1.input],
                             [name |-> b2.name, input |-> b2.input]>>
           /\ Len(events) = 4
           /\ events[1] = [ev |-> "start", id |-> b1.id]
           /\ events[2].ev = "return" /\ events[2].id = b1.id
           /\ events[3] = [ev |-> "start", id |-> b2.id]
           /\ events[4].ev = "return" /\ events[4].id = b2.id

C5_Witness ==
    /\ C5_Case
    /\ tool_calls[1].name # tool_calls[2].name
    /\ state = "Answered"

\* ------------------------------------------------------------------- C6
\* C6: when a non-empty tool schema list is passed to generate_response,
\* every model invocation of the query, the follow-ups after round 1 and
\* round 2 included, carries that same list and tool_choice auto.
C6_ToolsStillAttached ==
    (args # None /\ TruthyList(args[1].tools)) =>
        \A n \in 1..Len(requests) :
            /\ "tools" \in DOMAIN requests[n]
            /\ requests[n].tools = args[1].tools[1]
            /\ requests[n].tools = requests[1].tools
            /\ "tool_choice" \in DOMAIN requests[n]
            /\ requests[n].tool_choice = [type |-> "auto"]

C6_Witness == args # None /\ TruthyList(args[1].tools) /\ Invocations = 3

\* ------------------------------------------------------------------- C7
\* C7: in every request, each assistant message whose content holds tool_use
\* blocks is followed by exactly one user message; that message holds one
\* tool_result entry per tool_use block, in block order, the i-th with the id
\* of the i-th tool_use block and the output its execution returned.  An
\* assistant message without tool_use block is followed by no user message,
\* and text blocks have no entry.
C7_MessageOk(msgs, j) ==
    LET blocks == ToolBlocks(msgs[j].content)
    IN IF Len(blocks) = 0
       THEN j = Len(msgs) \/ msgs[j + 1].role = "assistant"
       ELSE /\ j + 1 <= Len(msgs)
            /\ msgs[j + 1].role = "user"
            /\ (j + 2 <= Len(msgs) => msgs[j + 2].role = "assistant")
            /\ Len(msgs[j + 1].content) = Len(blocks)
            /\ \A i \in 1..Len(blocks) :
                  /\ msgs[j + 1].content[i].type = "tool_result"
                  /\ msgs[j + 1].content[i].tool_use_id = blocks[i].id
                  /\ Returned(blocks[i].id)
                  /\ msgs[j + 1].content[i].content = OutputOf(blocks[i].id)

C7_OneResultPerToolBlock ==
    \A n \in 1..Len(requests) :
        \A j \in 1..Len(requests[n].messages) :
            requests[n].messages[j].role = "assistant" => C7_MessageOk(requests[n].messages, j)

\* round 1 answered a response with a text block and one tool request,
\* round 2 a response with two tool requests of different outputs
C7_Witness ==
    /\ Invocations = 3
    /\ Len(LastMessages) = 5
    /\ Len(RoundResponse(1)) = 2
    /\ RoundResponse(1)[1].type = "text"
    /\ Len(LastMessages[3].content) = 1
    /\ Len(ToolBlocks(RoundResponse(2))) = 2
    /\ LastMessages[5].content[1].content # LastMessages[5].content[2].content

\* ------------------------------------------------------------------- C8
\* C8: tool executions never overlap: at most one is in flight, every start
\* is directly followed by the return of the same execution before the next
\* start, and the executions of a round start in the order of the tool_use
\* blocks of the response.
StartedIds == [k \in 1..Len(SelectSeq(events, LAMBDA e : e.ev = "start")) |->
                  SelectSeq(events, LAMBDA e : e.ev = "start")[k].id]

C8_Sequential ==
    /\ Cardinality(inflight) <= 1
    /\ \A k \in 1..Len(events) :
          IF k % 2 = 1
          THEN events[k].ev = "start"
          ELSE events[k].ev = "return" /\ events[k].id = events[k - 1].id
    /\ \A k \in 1..(Len(StartedIds) - 1) :
          \/ StartedIds[k][2] < StartedIds[k + 1][2]
          \/ StartedIds[k][2] = StartedIds[k + 1][2] /\ StartedIds[k][3] < StartedIds[k + 1][3]

C8_Witness ==
    /\ Len(events) = 3
    /\ events[3].ev = "start"
    /\ events[3].id[2] = events[1].id[2]

\* ------------------------------------------------------------------- C9
\* C9 as stated: once a tool call has failed, the call does not end before
\* the error text went to the model as a tool_result entry of a follow-up
\* request, and the call ends by returning a text answer.
FailedIds == {events[k].id : k \in {i \in 1..Len(events) :
                                       events[i].ev = "return" /\ IsErrorText(events[i].out)}}

FedBack(id) ==
    \E n \in 1..Len(requests) : \E j \in 1..Len(requests[n].messages) :
        /\ requests[n].messages[j].role = "user"
        /\ j > 1
        /\ \E i \in 1..Len(requests[n].messages[j].content) :
              /\ requests[n].messages[j].content[i].tool_use_id = id
              /\ requests[n].messages[j].content[i].content = OutputOf(id)
              /\ n = id[2] + 1

C9_FailingToolReturnsAnswer ==
    (FailedIds # {} /\ CallOver /\ outcome.value # "UpstreamFailure")
        => /\ \A id \in FailedIds : FedBack(id)
           /\ outcome.outcome = "returned"

\* ------------------------------------------------------------------ C10
\* C10: the execution of a tool name that is not registered returns error
\* text; that text is a tool_result entry with the id of the request in the
\* next model invocation, and the call does not end between the execution
\* and that invocation.
UnknownIds == {events[k].id : k \in {i \in 1..Len(events) :
                  /\ events[i].ev = "start"
                  /\ \E n \in 1..Len(tool_calls) :
                        /\ 2 * n - 1 = i
                        /\ tool_calls[n].name \notin RegisteredTools}}

C10_UnknownToolFedBack ==
    \A id \in UnknownIds :
        /\ Returned(id) => IsErrorText(OutputOf(id))
        /\ (Invocations > id[2] \/ CallOver) => (Returned(id) /\ FedBack(id))
        /\ (CallOver /\ outcome.value # "UpstreamFailure") => Invocations > id[2]

C10_Witness ==
    /\ UnknownIds # {}
    /\ state = "Answered"
    /\ outcome.outcome = "returned"
    /\ \A id \in UnknownIds : FedBack(id)

\* ------------------------------------------------------------------ C11
\* C11 as stated: a call that ends in RoundCapReached (the response after
\* the last round still asks for tools) ends by returning the text of that
\* last response, whatever the content blocks of that response are.
C11_RoundCapReturnsText ==
    (state = "RoundCapReached" /\ tool_asked[Len(stops)])
        => /\ outcome.outcome = "returned"
           /\ outcome.value[2] = Len(stops)

\* ------------------------------------------------------------------ C12
\* C12: a model invocation that fails (the step that leaves AwaitingModel
\* without a response) ends the call in Failed with the exception raised to
\* the caller and no text returned; the step sends no request and starts no
\* tool execution, and nothing but the end of the query follows it.
C12_FailureStep ==
    /\ (state = "AwaitingModel" /\ stops' = stops)
          => /\ state' = "Failed"
             /\ outcome' = [outcome |-> "raised", value |-> "UpstreamFailure"]
             /\ requests' = requests
             /\ tool_calls' = tool_calls
             /\ events' = events
             /\ batches' = batches
    /\ (state = "Failed")
          => /\ state' = "Idle"
             /\ outcome.outcome = "raised"

C12_FailurePropagates == [][C12_FailureStep]_vars

\* the follow-up invocation after a round with a tool execution failed
C12_Witness ==
    /\ state = "Failed"
    /\ Invocations = 2
    /\ Len(tool_calls) >= 1
    /\ outcome.value = "UpstreamFailure"

\* ------------------------------------------------------------------ C13
\* C13: the first request of a call has exactly one message, the user
\* message with the query; its system text is the system prompt followed by
\* the history when a history is given and the system prompt alone when
\* not; a tool schema list that is passed is attached whole, with
\* tool_choice auto.
C13_InitialRequest ==
    (args # None /\ Len(requests) >= 1) =>
        LET a == args[1]
            r == requests[1]
        IN /\ r.messages = <<[role |-> "user", content |-> a.query]>>
           /\ r.system[1] = SYSTEM_PROMPT
           /\ IF TruthyStr(a.conversation_history)
              THEN /\ Len(r.system) = 3
                   /\ r.system[Len(r.system)] = a.conversation_history[1]
              ELSE r.system = <<SYSTEM_PROMPT>>
           /\ TruthyList(a.tools)
                 => /\ "tools" \in DOMAIN r
                    /\ r.tools = a.tools[1]
                    /\ "tool_choice" \in DOMAIN r
                    /\ r.tool_choice = [type |-> "auto"]

C13_Witness ==
    /\ args # None
    /\ Len(requests) >= 1
    /\ TruthyStr(args[1].conversation_history)
    /\ TruthyList(args[1].tools)
    /\ Len(requests[1].system) = 3

\* ------------------------------------------------------------------ C14
\* C14 as stated: when the first response asks for a tool and the second
\* does not, the call is over in Answered after exactly 2 model invocations
\* and 1 batch of tool executions, and it returned the text of the second
\* response.
C14_OneRoundReturnsSecondText ==
    (/\ Len(stops) = 2
     /\ stops[1] = "tool_use" /\ tool_asked[1]
     /\ stops[2] # "tool_use" /\ ~tool_asked[2])
        => /\ state = "Answered"
           /\ Invocations = 2
           /\ batches = 1
           /\ outcome.outcome = "returned"
           /\ outcome.value[2] = 2

\* ------------------------------------------------------------------ C15
\* C15 as stated: for queries that run one after the other on one registry,
\* the registry holds no source when answer_query returns, and every record
\* a query returns was written by a tool execution of that same query.
Collected(c) == pc[c] \in {"Collected", "Done"}

C15_NoStaleSources ==
    \A c \in Callers :
        /\ pc[c] = "Done" => CollectSources(last_sources) = <<>>
        /\ Collected(c) => \A i \in 1..Len(got_tags[c]) : got_tags[c][i] = Me(c)

\* ------------------------------------------------------------------ C16
\* C16 as stated: the sources collected after a query hold exactly one
\* record per chunk its content searches matched, also when the content
\* search is executed in both rounds.  (Stated for queries that start on a
\* registry without records and execute the content search only.)
OnlySearched(c) ==
    /\ own[c]["get_course_outline"] = <<>>
    /\ \A i \in 1..Len(got_tags[c]) : got_tags[c][i] = Me(c)

C16_CollectCountsMatches ==
    \A c \in Callers :
        (Collected(c) /\ OnlySearched(c)) => Len(got[c]) = Cardinality(matched[c])

\* ------------------------------------------------------------------ C17
\* C17: the shared registry is not safe for two callers.  Whenever the last
\* write to a tool's last_sources before a caller collects was made by the
\* other caller (a tool execution, or a reset that cleared the caller's own
\* records), the caller returns a record the other query produced or does
\* not return all records of its own executions.
Foreign(c) == \E i \in 1..Len(got_tags[c]) : got_tags[c][i][1] # c

Lost(c) ==
    Cardinality({i \in 1..Len(got_tags[c]) : got_tags[c][i] = Me(c)})
        < Len(CollectSources(own[c]))

C17_SharedRegistryUnsafe ==
    \A c \in Callers :
        (Collected(c) /\ touched[c] # {}) => (Foreign(c) \/ Lost(c))

\* caller 2 executed a tool after the search of caller 1 and before caller
\* 1 collected: caller 1 returns records of caller 2 and none of its own
C17_Witness ==
    /\ Collected(1)
    /\ Foreign(1)
    /\ Lost(1)
    /\ own[1]["search_course_content"] # <<>>
    /\ touched[1] # {}
    /\ Uncollected(2)

\* ------------------------------------------------------------------ C18
\* C18: whatever turns were appended to whatever sessions in whatever
\* order, the history of a session holds at most MAX_HISTORY turns, and they
\* are the turns appended to that session last, in append order; it depends
\* on the appends to that session only.
C18_HistoryCapped ==
    \A sid \in 1..Len(sessions) :
        LET h == GetHistory(sessions[sid])
            log == appended[sid]
            n == IF Len(log) < MAX_HISTORY THEN Len(log) ELSE MAX_HISTORY
        IN /\ Len(h) <= MAX_HISTORY
           /\ Len(h) = n
           /\ \A i \in 1..n : h[i] = RenderTurn(log[Len(log) - n + i])

\* a turn of one session was evicted while another session has turns too
C18_Witness ==
    \E sid \in 1..Len(sessions), other \in 1..Len(sessions) :
        /\ sid # other
        /\ Len(appended[sid]) > MAX_HISTORY
        /\ Len(appended[other]) >= 1
        /\ appended[other][1].text[2] > appended[sid][1].text[2]

\* ------------------------------------------------------------------ C19
\* C19 as stated: with a result cap of zero every execution of the content
\* search tool returns the configuration-error message, whatever its
\* arguments and whatever the index holds; that message differs from the
\* message of an empty match, and the tool holds no source afterwards.
C19_ZeroCapConfigError ==
    (/\ last_exec # None
     /\ last_exec[1].name = "search_course_content"
     /\ store.max_results = 0)
        => /\ last_exec[1].out = ConfigErrorMessage
           /\ last_exec[1].out # EmptyMessage
           /\ last_sources["search_course_content"] = <<>>

\* ------------------------------------------------------------------ C20
\* C20: the query endpoint calls create_session exactly once for a request
\* without session id (None or the empty string) and not at all for a
\* request with one; it passes the query on under the id of the request,
\* or under the created id, and a 200 response carries that same id.
C20_Handled(e) ==
    LET given == TruthyStr(e.request.session_id)
        id == IF given THEN e.request.session_id[1] ELSE MOCK_SESSION_ID
    IN /\ e.create_session_calls = (IF given THEN 0 ELSE 1)
       /\ e.query_call = [query |-> e.request.query, session_id |-> id]
       /\ e.response.status = 200 => e.response.session_id = id

C20_SessionPerRequest == \A k \in 1..Len(handled) : C20_Handled(handled[k])

\* a request without session id and a request with one were answered
C20_Witness ==
    \E j \in 1..Len(handled), k \in 1..Len(handled) :
        /\ handled[j].request.session_id = None
        /\ handled[j].response.status = 200
        /\ handled[j].create_session_calls = 1
        /\ handled[k].request.session_id = Some("existing-session-456")
        /\ handled[k].response.status = 200
        /\ handled[k].create_session_calls = 0

\* ------------------------------------------------------------------ C21
\* C21: a request whose processing raised an error is answered with status
\* 500 and the message of that error as detail, never with a 200 response
\* and never with an answer; a request whose processing raised nothing is
\* answered with 200.
C21_Handled(e) ==
    IF e.raised # None
    THEN /\ e.response.status = 500
         /\ "detail" \in DOMAIN e.response
         /\ e.response.detail = (IF e.raised[1].args = <<>> THEN "" ELSE e.raised[1].args[1])
         /\ "answer" \notin DOMAIN e.response
    ELSE e.response.status = 200

C21_ErrorsAnswered500 == \A k \in 1..Len(handled) : C21_Handled(handled[k])

\* two requests failed with different messages, one of them after a session
\* was created for it
C21_Witness ==
    \E j \in 1..Len(handled), k \in 1..Len(handled) :
        /\ handled[j].raised = Some([type |-> "Exception",
                                     args |-> <<"Database connection failed">>])
        /\ handled[j].create_session_calls = 1
        /\ handled[j].response.detail = "Database connection failed"
        /\ handled[k].raised # None
        /\ handled[k].response.status = 500
        /\ handled[k].response.detail # handled[j].response.detail

\* ------------------------------------------------------------------ C22
\* C22: a content search with a course name and / or a lesson number that
\* returns results returns only stored chunks of the resolved course and of
\* that lesson, each under the header "[<course> - Lesson <n>]" of its own
\* course and lesson; a lesson number of 0 restricts the search to lesson 0.
C22_Expected(course_name) ==
    IF Len(store.catalog) = 2 /\ course_name = "Advanced"
    THEN "Advanced Testing Patterns"
    ELSE "Introduction to Testing"

C22_FilteredSearch ==
    (/\ last_exec # None
     /\ last_exec[1].name = "search_course_content"
     /\ last_exec[1].out[1] = "results")
        => LET input == last_exec[1].input
               blocks == last_exec[1].out[2]
           IN \A i \in 1..Len(blocks) :
                 \E ch \in {store.chunks[k] : k \in 1..Len(store.chunks)} :
                     /\ blocks[i] = FormatChunk(ch)
                     /\ blocks[i].header = <<"[", ch.course, " - Lesson ", ch.lesson, "]">>
                     /\ "course_name" \in DOMAIN input
                           => ch.course = C22_Expected(input.course_name)
                     /\ "lesson_number" \in DOMAIN input
                           => ch.lesson = input.lesson_number

\* on the index with two courses: the search for lesson 0 of the second
\* course returns its one chunk, and the search for lesson 0 of any course
\* returns the chunks of lesson 0 of both
C22_Witness ==
    /\ last_exec # None
    /\ last_exec[1].name = "search_course_content"
    /\ Len(store.catalog) = 2
    /\ "lesson_number" \in DOMAIN last_exec[1].input
    /\ last_exec[1].input.lesson_number = 0
    /\ "course_name" \in DOMAIN last_exec[1].input
    /\ last_exec[1].input.course_name = "Advanced"
    /\ last_exec[1].out[1] = "results"
    /\ Len(last_exec[1].out[2]) = 1
    /\ last_exec[1].out[2][1].header = <<"[", "Advanced Testing Patterns", " - Lesson ", 0, "]">>

\* ------------------------------------------------------------------ C23
\* C23: the course-name resolution of a tool execution signals NotFound
\* exactly when the catalog is empty, and otherwise returns one title of
\* the catalog, whatever the name; when it signals NotFound the content
\* search tool returns the no-matching-course message and does not search
\* the index.
Titles == {store.catalog[k].title : k \in 1..Len(store.catalog)}

C23_Resolution ==
    last_exec # None =>
        LET e == last_exec[1]
        IN /\ ("course_name" \in DOMAIN e.input) <=> (Len(e.resolutions) = 1)
           /\ \A k \in 1..Len(e.resolutions) :
                 /\ (e.resolutions[k] = None) <=> (Len(store.catalog) = 0)
                 /\ e.resolutions[k] # None
                       => /\ Len(e.resolutions[k]) = 1
                          /\ e.resolutions[k][1] \in Titles
                 /\ (e.resolutions[k] = None /\ e.name = "search_course_content")
                       => /\ e.out = NoCourseMessage(e.input.course_name)
                          /\ e.searches = 0

\* a name that is near no title was resolved on the index with two courses
C23_Witness ==
    /\ last_exec # None
    /\ last_exec[1].name = "search_course_content"
    /\ "course_name" \in DOMAIN last_exec[1].input
    /\ last_exec[1].input.course_name = "NonExistent Course"
    /\ Len(store.catalog) = 2
    /\ last_exec[1].resolutions = <<Some("Introduction to Testing")>>
    /\ last_exec[1].searches = 1

\* ------------------------------------------------------------------ C24
\* C24: a step leaves the tool-calling loop for Answered or RoundCapReached
\* exactly when it receives a follow-up response whose stop reason is not
\* tool_use or that is the response of round 2; the step in which a tool
\* returns error text stays in the round, and every call that left the loop
\* made the follow-up invocation of each round it began.
InLoop ==
    \/ state \in {"ToolRequested", "ToolsExecuting"}
    \/ state = "AwaitingModel" /\ round_count > 0

C24_FollowUpArrives == state = "AwaitingModel" /\ round_count > 0 /\ Len(stops') = Len(stops) + 1

C24_Step ==
    /\ (InLoop /\ state' \in Terminal)
          => /\ C24_FollowUpArrives
             /\ stops'[Len(stops')] # "tool_use" \/ round_count = 2
    /\ (C24_FollowUpArrives /\ (stops'[Len(stops')] # "tool_use" \/ round_count = 2))
          => state' \in Terminal
    /\ (InLoop /\ Len(events') = Len(events) + 1 /\ events'[Len(events')].ev = "return"
            /\ IsErrorText(events'[Len(events')].out))
          => /\ state' = "ToolsExecuting"
             /\ round_count' = round_count
             /\ tool_results'[Len(tool_results')].content = events'[Len(events')].out

C25_LatestAsksForTools ==
    /\ Invocations >= 1
    /\ Len(stops) = Invocations
    /\ stops[Len(stops)] = "tool_use"

C25_Step ==
    /\ batches' = batches + 1
          => /\ C25_LatestAsksForTools
             /\ batches = Invocations - 1
    /\ Len(tool_calls') > Len(tool_calls)
          => /\ C25_LatestAsksForTools
             /\ batches = Invocations
             /\ state \notin Ended
             /\ Len(tool_calls') = Len(tool_calls) + 1
    /\ (Invocations >= 1 /\ Len(requests') > Len(requests))
          => /\ batches = Invocations
             /\ batches' = batches
             /\ Len(requests') = Len(requests) + 1
    /\ state \in Ended
          => /\ state' = "Idle"
             /\ tool_calls' = <<>>

C25_Alternation ==
    /\ [][C25_Step]_vars
    /\ [](Invocations >= 1 => batches \in {Invocations - 1, Invocations})
    /\ [](state \in Ended => (batches = Invocations - 1 /\ inflight = {}))
    /\ [](Invocations = 0 => (tool_calls = <<>> /\ batches = 0))

\* two batches with three tool executions between three invocations
C25_Witness ==
    /\ state = "Answered"
    /\ batches = 2
    /\ Invocations = 3
    /\ Len(tool_calls) = 3

\* ------------------------------------------------------------------ C26
\* C26: when every response with stop reason tool_use that came before it
\* holds a tool_use block, the n-th model invocation of a query carries
\* exactly 2n-1 messages: the user query, then for each of the n-1 rounds
\* the content of the response of that round as assistant message and one
\* user message with the tool results of that round.
C26_RequestOk(n) ==
    LET msgs == requests[n].messages
    IN /\ Len(msgs) = 2 * n - 1
       /\ msgs[1] = [role |-> "user", content |-> args[1].query]
       /\ \A r \in 1..(n - 1) :
             /\ msgs[2 * r].role = "assistant"
             /\ Len(ToolBlocks(msgs[2 * r].content)) >= 1
             /\ \A i \in 1..Len(msgs[2 * r].content) :
                   IF msgs[2 * r].content[i].type = "text"
                   THEN msgs[2 * r].content[i].text = <<"text", r, i>>
                   ELSE msgs[2 * r].content[i].id = <<"toolu", r, i>>
             /\ msgs[2 * r + 1].role = "user"
             /\ Len(msgs[2 * r + 1].content) = Len(ToolBlocks(msgs[2 * r].content))
             /\ \A i \in 1..Len(msgs[2 * r + 1].content) :
                   msgs[2 * r + 1].content[i].type = "tool_result"

C26_TranscriptLength ==
    \A n \in 1..Len(requests) :
        /\ n <= 3
        /\ (\A k \in 1..(n - 1) : stops[k] = "tool_use" => tool_asked[k]) => C26_RequestOk(n)

\* the third invocation, after a round whose response held a text block
\* and a tool request and a round whose response held two tool requests
C26_Witness ==
    /\ Invocations = 3
    /\ tool_asked[1] /\ tool_asked[2]
    /\ Len(requests[3].messages) = 5
    /\ requests[3].messages[2].content[1].type = "text"
    /\ Len(requests[3].messages[5].content) = 2

\* ------------------------------------------------------------------ C27
\* C27 as stated: in every model request the roles of the messages
\* alternate, the first and the last message are user messages, whatever
\* the model answered, a response with stop reason tool_use and without
\* tool_use block included.
C27_RolesAlternate ==
    \A n \in 1..Len(requests) :
        LET msgs == requests[n].messages
        IN /\ Len(msgs) >= 1
           /\ msgs[1].role = "user"
           /\ msgs[Len(msgs)].role = "user"
           /\ \A j \in 1..(Len(msgs) - 1) : msgs[j].role # msgs[j + 1].role

\* ------------------------------------------------------------------ C28
\* C28: the transcript of a query only grows at its end: the messages of
\* each model invocation begin with all messages of the invocation before
\* it, in the same order and unchanged, and the first message of every
\* invocation is the user message with the query as it was passed.
C28_AppendOnly ==
    /\ \A n \in 1..Len(requests) :
          /\ Len(requests[n].messages) >= 1
          /\ requests[n].messages[1] = [role |-> "user", content |-> args[1].query]
    /\ \A n \in 1..(Len(requests) - 1) :
          LET before == requests[n].messages
              after == requests[n + 1].messages
          IN /\ Len(before) < Len(after)
             /\ SubSeq(after, 1, Len(before)) = before

\* the third invocation carries the five messages of two full rounds
C28_Witness ==
    /\ Invocations = 3
    /\ Len(requests[2].messages) = 3
    /\ Len(requests[3].messages) = 5
    /\ requests[3].messages[3] = requests[2].messages[3]

\* ------------------------------------------------------------------ C29
\* C29: a value that generate_response returns is the text of the first
\* block of the last response the call received, never text of an earlier
\* response; when the call returns in RoundCapReached that response is the
\* third one, which still asks for tools.
C29_ReturnsLastResponse ==
    outcome.outcome = "returned"
        => /\ Len(stops) = Invocations
           /\ outcome.value = <<"text", Len(stops), 1>>
           /\ state = "RoundCapReached"
                 => /\ Len(stops) = 3
                    /\ stops[3] = "tool_use"

\* the third response holds a text block before its tool request, and the
\* responses before it held text too
C29_Witness ==
    /\ state = "RoundCapReached"
    /\ outcome = [outcome |-> "returned", value |-> <<"text", 3, 1>>]
    /\ tool_asked[3]
    /\ tool_asked[1] /\ tool_asked[2]
    /\ Len(requests[3].messages) = 5
    /\ requests[3].messages[2].content[1].type = "text"
    /\ requests[3].messages[4].content[1].type = "text"

\* ------------------------------------------------------------------ C30
\* C30: the tool executions of a query are, in order, exactly the tool_use
\* blocks of the responses whose rounds were run, each dispatched with the
\* name and the input of its block; while a round runs, the executions made
\* so far in it are the first tool_use blocks of the current response.
C30_CallOf(block) == [name |-> block.name, input |-> block.input]

C30_CallsOf(content) ==
    [i \in 1..Len(ToolBlocks(content)) |-> C30_CallOf(ToolBlocks(content)[i])]

RECURSIVE C30_Requested(_, _)
C30_Requested(msgs, j) ==
    IF j > Len(msgs) THEN <<>>
    ELSE (IF msgs[j].role = "assistant" THEN C30_CallsOf(msgs[j].content) ELSE <<>>)
             \o C30_Requested(msgs, j + 1)

C30_ExactDispatch ==
    Invocations >= 1 =>
        LET done == C30_Requested(LastMessages, 1)
        IN IF state = "ToolsExecuting"
           THEN LET now == C30_CallsOf(current_response[1].content)
                    k == Len(tool_calls) - Len(done)
                IN /\ k \in 0..Len(now)
                   /\ tool_calls = done \o SubSeq(now, 1, k)
                   /\ \A id \in inflight : id[2] = Len(stops)
           ELSE /\ tool_calls = done
                /\ inflight = {}

\* a response asked for two different tools and both were executed, in
\* the order of the blocks
C30_Witness ==
    /\ state = "Answered"
    /\ Invocations = 2
    /\ Len(tool_calls) = 2
    /\ tool_calls[1].name = "no_such_tool"
    /\ tool_calls[2].name = "search_course_content"
    /\ tool_calls[1].input # tool_calls[2].input
    /\ outcome.outcome = "returned"

\* ------------------------------------------------------------------ C31
\* C31: a call without tool manager is over as soon as its first response
\* arrived, whatever that response asks for: it made exactly one model
\* invocation, began no batch and executed no tool.
C31_NoManagerNoLoop ==
    (args # None /\ args[1].tool_manager = None)
        => /\ Invocations <= 1
           /\ batches = 0
           /\ tool_calls = <<>>
           /\ events = <<>>
           /\ Len(stops) >= 1 => (state \in Ended /\ Invocations = 1)

\* the first response asked for a tool and no tool manager was given
C31_Witness ==
    /\ args # None
    /\ args[1].tool_manager = None
    /\ stops = <<"tool_use">>
    /\ tool_asked = <<TRUE>>
    /\ state = "Answered"
    /\ Invocations = 1

C33_SystemTextFixed ==
    \A n \in 1..Len(requests) :
        /\ requests[n].system = requests[1].system
        /\ requests[n].system = SystemContent(args[1].conversation_history)
        /\ Len(requests[n].system) <= 3

\* the third invocation of a call with a history
C33_Witness ==
    /\ Invocations = 3
    /\ TruthyStr(args[1].conversation_history)
    /\ Len(requests[3].system) = 3
    /\ Len(requests[3].messages) = 5

\* ------------------------------------------------------------------ C34
\* C34: whenever generate_response returns a value to a caller that passed
\* a tool manager, it made one model invocation more than it ran batches of
\* tool executions.
C34_InvocationsBatchesPlusOne ==
    (outcome.outcome = "returned" /\ HasToolManager) => Invocations = batches + 1

\* the return at the round cap, after two batches
C34_Witness ==
    /\ outcome.outcome = "returned"
    /\ HasToolManager
    /\ batches = 2
    /\ Invocations = 3
    /\ state = "RoundCapReached"

\* ------------------------------------------------------------------ C35
\* C35: no step of a call changes the base parameters of the generator
\* (model, temperature 0, max_tokens 800), and every model request of every
\* query carries exactly these values.
C35_BaseParamsKept ==
    /\ [][base_params' = base_params]_vars
    /\ [](/\ DOMAIN base_params = {"model", "temperature", "max_tokens"}
          /\ base_params.temperature = 0
          /\ base_params.max_tokens = 800
          /\ \A n \in 1..Len(requests) :
                /\ {"model", "temperature", "max_tokens"} \subseteq DOMAIN requests[n]
                /\ requests[n].model = base_params.model
                /\ requests[n].temperature = 0
                /\ requests[n].max_tokens = 800)

\* the follow-up of round 2
C35_Witness ==
    /\ Invocations = 3
    /\ requests[3].temperature = 0
    /\ requests[3].max_tokens = 800
    /\ requests[3].model = "claude-model"

\* ------------------------------------------------------------------ C36
\* C36: under every interleaving of two calls on one generator, every
\* request of a call begins with the query of that call and holds, round by
\* round, the response that call received in that round and the results of
\* the tools that response asked for, and nothing of the other call; each
\* call makes at most 3 model invocations and runs at most 2 batches, one
\* invocation more than batches whenever it is not executing tools.
C36_OwnBlock(c, k, block, i) ==
    IF block.type = "text"
    THEN block.text = <<"text", <<c, k>>, i>>
    ELSE block.id = <<"toolu", <<c, k>>, i>>

C36_OwnRequest(c, n) ==
    LET msgs == frames[c].requests[n].messages
        round(j) == Cardinality({i \in 1..j : msgs[i].role = "assistant"})
    IN /\ msgs[1] = [role |-> "user", content |-> CallQuery(c)]
       /\ round(Len(msgs)) = n - 1
       /\ \A j \in 2..Len(msgs) :
             \A i \in 1..Len(msgs[j].content) :
                 IF msgs[j].role = "assistant"
                 THEN C36_OwnBlock(c, round(j), msgs[j].content[i], i)
                 ELSE /\ msgs[j].content[i].type = "tool_result"
                      /\ msgs[j].content[i].tool_use_id[2] = <<c, round(j)>>

C36_CallsIndependent ==
    \A c \in Callers :
        /\ Len(frames[c].requests) <= 3
        /\ frames[c].batches <= 2
        /\ frames[c].pc \notin {"Idle", "ToolsExecuting"}
              => Len(frames[c].requests) = frames[c].batches + 1
        /\ frames[c].pc = "ToolsExecuting"
              => Len(frames[c].requests) = frames[c].batches
        /\ \A n \in 1..Len(frames[c].requests) : C36_OwnRequest(c, n)

\* call 2 reached the round cap while call 1 was executing the tools of
\* its first round
C36_Witness ==
    /\ frames[1].pc = "ToolsExecuting"
    /\ Len(frames[1].requests) = 1
    /\ Len(frames[1].tool_calls) = 1
    /\ frames[2].pc = "RoundCapReached"
    /\ Len(frames[2].requests) = 3
    /\ Len(frames[2].requests[3].messages) = 5

====
